---- MODULE Spec2Model ----
(***************************************************************************)
(* The EU Digital COVID Certificate decoder of src/src/eudcc.rs.           *)
(*                                                                         *)
(* decode() is a linear pipeline: strip the "HC1:" marker, Base45-decode,  *)
(* inflate, parse one CBOR value, unwrap the COSE_Sign1 envelope, read the *)
(* claims of the payload (Payload's hand-written visit_map) and index the  *)
(* health-certificate map by the v1 key.                                   *)
(*                                                                         *)
(* CBOR data items are modelled structurally (integer, text, bytes, array, *)
(* map, tag).  A byte string that carries CBOR is modelled by the sequence *)
(* of data items its bytes encode.  The Base45 and zlib codecs are library *)
(* calls whose byte-level work is not modelled: each is a stage that       *)
(* either fails or hands an output to the next stage.                      *)
(***************************************************************************)
EXTENDS Integers, Sequences, FiniteSets, TLC

VARIABLES
    pc,           \* the stage about to run
    data,         \* decode's argument, a string
    base45_data,  \* the text after the marker (line 181)
    cbor_data,    \* the inflated bytes (line 189), as the data items they encode
    payload,      \* the bytes at PAYLOAD_POSITION (line 201), as data items
    scan,         \* visit_map's locals and its MapAccess (lines 112-155)
    p,            \* the Result<Payload> of from_reader (line 202)
    cert_value,   \* a data item handed to Certificate's Deserialize
    result,       \* what decode, or the operation under study, returned
    stages        \* history: the stages run so far, in order

vars == <<pc, data, base45_data, cbor_data, payload, scan, p, cert_value, result,
          stages>>

-----------------------------------------------------------------------------
(* Program constants, src/src/eudcc.rs lines 12-19.                        *)

CLAIM_KEY_DCCV1 == 1
CLAIM_KEY_EXPIRETION_TIME == 4
CLAIM_KEY_HCERT == -260
CLAIM_KEY_ISSUED_AT == 6
CLAIM_KEY_ISSUER == 1
COSE_SIGN1_TAG == 18
HC1_FIELD == <<"H", "C", "1", ":">>
PAYLOAD_POSITION == 2

-----------------------------------------------------------------------------
(* Bounds of the model.                                                    *)

MaxInputLen == 5    \* characters of the input string
MaxArr == 5         \* elements of the array under the outer tag
MaxEntries == 5     \* entries of a claims mapping
MaxVersions == 2    \* entries of a health-certificate mapping
MaxRecords == 2     \* records of one collection of a certificate

-----------------------------------------------------------------------------
(* CBOR data items (ciborium::value::Value).                               *)

IntV(n) == [t |-> "int", n |-> n]
Text(s) == [t |-> "text", s |-> s]
Bytes(b) == [t |-> "bytes", b |-> b]
Array(a) == [t |-> "array", a |-> a]
Map(m) == [t |-> "map", m |-> m]
Tag(k, c) == [t |-> "tag", k |-> k, c |-> c]

(* Results and options.                                                    *)
Ok(v) == [ok |-> TRUE, v |-> v]
Err(kind, field) == [ok |-> FALSE, err |-> [kind |-> kind, field |-> field]]
None == [some |-> FALSE]
Some(v) == [some |-> TRUE, v |-> v]

NoFields == [f \in {} |-> 0]

-----------------------------------------------------------------------------
(* The record schema, lines 21-84: for each struct its fields in           *)
(* declaration order under their serde names, each field's type, and the   *)
(* fields marked #[serde(default)].                                        *)

VaccineRecordFields == <<"tg", "vp", "mp", "ma", "dn", "sd", "dt", "co", "is", "ci">>
RecoveryRecordFields == <<"tg", "fr", "co", "is", "df", "du", "ci">>
TestRecordFields == <<"tg", "tt", "nm", "ma", "sc", "dr", "tr", "tc", "co", "is", "ci">>
NameFields == <<"fn", "fnt", "gn", "gnt">>
CertificateFields == <<"ver", "nam", "dob", "v", "r", "t">>

FieldsOf(ty) ==
    CASE ty = "VaccineRecord" -> VaccineRecordFields
      [] ty = "RecoveryRecord" -> RecoveryRecordFields
      [] ty = "TestRecord" -> TestRecordFields
      [] ty = "Name" -> NameFields
      [] ty = "Certificate" -> CertificateFields

FieldType(ty, f) ==
    CASE ty = "VaccineRecord" /\ f \in {"dn", "sd"} -> "i32"
      [] ty = "Certificate" /\ f = "nam" -> "Name"
      [] ty = "Certificate" /\ f = "v" -> "Vec<VaccineRecord>"
      [] ty = "Certificate" /\ f = "r" -> "Vec<RecoveryRecord>"
      [] ty = "Certificate" /\ f = "t" -> "Vec<TestRecord>"
      [] OTHER -> "String"

(* HasDefault with the test collection of Certificate left required (a    *)
(* variant the collection property must tell from the code).               *)
CertificateDefaultsMut(ty, f) ==
    \/ ty = "TestRecord" /\ f \in {"nm", "ma", "dr"}
    \/ ty = "Certificate" /\ f \in {"v", "r"}

HasDefault(ty, f) ==
    \/ ty = "TestRecord" /\ f \in {"nm", "ma", "dr"}
    \/ ty = "Certificate" /\ f \in {"v", "r", "t"}

IsStruct(ty) == ty \in {"VaccineRecord", "RecoveryRecord", "TestRecord", "Name", "Certificate"}
IsVec(ty) == ty \in {"Vec<VaccineRecord>", "Vec<RecoveryRecord>", "Vec<TestRecord>"}
ElemType(ty) ==
    CASE ty = "Vec<VaccineRecord>" -> "VaccineRecord"
      [] ty = "Vec<RecoveryRecord>" -> "RecoveryRecord"
      [] ty = "Vec<TestRecord>" -> "TestRecord"

DefaultOf(ty) == IF IsVec(ty) THEN <<>> ELSE ""

Range(s) == {s[i] : i \in 1..Len(s)}

-----------------------------------------------------------------------------
(* Typed deserialization of one data item, as the derived Deserialize     *)
(* impls and the integer/text primitives do it.                            *)

I16_MIN == -32768
I16_MAX == 32767
I32_MAX == 2147483647
I32_MIN == -I32_MAX - 1

DeI16(item) ==
    IF item.t = "int" /\ item.n >= I16_MIN /\ item.n <= I16_MAX
    THEN Ok(item.n) ELSE Err("invalid_type", "")

DeI32(item) ==
    IF item.t = "int" /\ item.n >= I32_MIN /\ item.n <= I32_MAX
    THEN Ok(item.n) ELSE Err("invalid_type", "")

DeUnsigned(item) ==
    IF item.t = "int" /\ item.n >= 0 THEN Ok(item.n) ELSE Err("invalid_type", "")

DeString(item) ==
    IF item.t = "text" THEN Ok(item.s) ELSE Err("invalid_type", "")

RECURSIVE FirstMissing(_, _, _)
FirstMissing(ty, fields, acc) ==
    IF fields = <<>> THEN None
    ELSE IF Head(fields) \notin DOMAIN acc /\ ~HasDefault(ty, Head(fields))
         THEN Some(Head(fields))
         ELSE FirstMissing(ty, Tail(fields), acc)

(* After the last entry of a struct's map: a field never seen is its       *)
(* default when marked #[serde(default)], a missing_field error otherwise. *)
FinishStruct(ty, acc) ==
    LET m == FirstMissing(ty, FieldsOf(ty), acc)
    IN  IF m.some THEN Err("missing_field", m.v)
        ELSE Ok([f \in Range(FieldsOf(ty)) |->
                    IF f \in DOMAIN acc THEN acc[f] ELSE DefaultOf(FieldType(ty, f))])

RECURSIVE DeType(_, _), VisitStruct(_, _, _), VisitSeq(_, _, _)

(* The derived visit_map of a struct: entries in wire order, unknown       *)
(* fields skipped together with their value, a repeated field rejected.    *)
VisitStruct(ty, entries, acc) ==
    IF entries = <<>> THEN FinishStruct(ty, acc)
    ELSE LET k == Head(entries)[1]
             v == Head(entries)[2]
         IN  IF k.t # "text" THEN Err("invalid_type", "")
             ELSE IF k.s \notin Range(FieldsOf(ty))
                  THEN VisitStruct(ty, Tail(entries), acc)
             ELSE IF k.s \in DOMAIN acc THEN Err("duplicate_field", k.s)
             ELSE LET r == DeType(FieldType(ty, k.s), v)
                  IN  IF r.ok
                      THEN VisitStruct(ty, Tail(entries), acc @@ (k.s :> r.v))
                      ELSE r

VisitSeq(ty, elems, acc) ==
    IF elems = <<>> THEN Ok(acc)
    ELSE LET r == DeType(ty, Head(elems))
         IN  IF r.ok THEN VisitSeq(ty, Tail(elems), Append(acc, r.v)) ELSE r

DeType(ty, item) ==
    CASE ty = "String" -> DeString(item)
      [] ty = "i32" -> DeI32(item)
      [] IsVec(ty) ->
            IF item.t = "array" THEN VisitSeq(ElemType(ty), item.a, <<>>)
            ELSE Err("invalid_type", "")
      [] IsStruct(ty) ->
            IF item.t = "map" THEN VisitStruct(ty, item.m, NoFields)
            ELSE Err("invalid_type", "")

DeCertificate(item) == DeType("Certificate", item)

(* certs: HashMap<usize, Certificate>, line 91: every key must be an       *)
(* unsigned integer and every value a Certificate; a repeated key keeps    *)
(* the later value.                                                        *)
RECURSIVE VisitCerts(_, _)
VisitCerts(entries, acc) ==
    IF entries = <<>> THEN Ok(acc)
    ELSE LET k == DeUnsigned(Head(entries)[1])
         IN  IF ~k.ok THEN k
             ELSE LET c == DeCertificate(Head(entries)[2])
                  IN  IF ~c.ok THEN c
                      ELSE VisitCerts(Tail(entries),
                                      [x \in (DOMAIN acc) \cup {k.v} |->
                                          IF x = k.v THEN c.v ELSE acc[x]])

DeCerts(item) ==
    IF item.t = "map" THEN VisitCerts(item.m, NoFields) ELSE Err("invalid_type", "")

-----------------------------------------------------------------------------
(* Payload's visit_map, lines 108-170, over ciborium's MapAccess.  The     *)
(* MapAccess of a definite-length map is a cursor on the item stream and a *)
(* count of entries left: next_key takes one from the count and            *)
(* deserializes the next item of the stream as the key; next_value         *)
(* deserializes the next item of the stream as the value.                  *)

RECURSIVE Flatten(_)
Flatten(entries) ==
    IF entries = <<>> THEN <<>>
    ELSE <<Head(entries)[1], Head(entries)[2]>> \o Flatten(Tail(entries))

StartScan(entries, after) ==
    [rest |-> Flatten(entries) \o after, left |-> Len(entries),
     issuer |-> None, issued_at |-> None, expires_at |-> None, certs |-> None,
     err |-> None]

Fail(s, e) == [s EXCEPT !.err = Some(e)]

SlotType(slot) ==
    CASE slot = "issuer" -> "String"
      [] slot \in {"issued_at", "expires_at"} -> "u64"
      [] slot = "certs" -> "HashMap<usize, Certificate>"

NextValue(ty, item) ==
    CASE ty = "String" -> DeString(item)
      [] ty = "u64" -> DeUnsigned(item)
      [] ty = "HashMap<usize, Certificate>" -> DeCerts(item)

(* One arm of the match, lines 119-150: the duplicate check, then          *)
(* slot = Some(map.next_value()?).                                         *)
FillSlot(s, slot) ==
    IF s[slot].some THEN Fail(s, Err("duplicate_field", slot))
    ELSE IF s.rest = <<>> THEN Fail(s, Err("eof", ""))
    ELSE LET r == NextValue(SlotType(slot), Head(s.rest))
         IN  IF r.ok
             THEN [s EXCEPT ![slot] = Some(r.v), !.rest = Tail(@)]
             ELSE Fail([s EXCEPT !.rest = Tail(@)], r)

(* The arm for any other key, lines 151-153: nothing is done, the value    *)
(* of the entry is left in the stream.                                     *)
IgnoreRest(s) == s

(* One iteration of the while loop, lines 117-155.                         *)
ScanEntry(s) ==
    LET s1 == [s EXCEPT !.left = @ - 1]
    IN  IF s.rest = <<>> THEN Fail(s1, Err("eof", ""))
        ELSE LET k == DeI16(Head(s.rest))
                 s2 == [s1 EXCEPT !.rest = Tail(@)]
             IN  IF ~k.ok THEN Fail(s2, k)
                 ELSE CASE k.v = CLAIM_KEY_ISSUER -> FillSlot(s2, "issuer")
                        [] k.v = CLAIM_KEY_ISSUED_AT -> FillSlot(s2, "issued_at")
                        [] k.v = CLAIM_KEY_EXPIRETION_TIME -> FillSlot(s2, "expires_at")
                        [] k.v = CLAIM_KEY_HCERT -> FillSlot(s2, "certs")
                        [] OTHER -> IgnoreRest(s2)

(* After the loop, lines 156-169.                                          *)
EndOfMap(s) ==
    IF ~s.issuer.some THEN Err("missing_field", "issuer")
    ELSE IF ~s.issued_at.some THEN Err("missing_field", "issued_at")
    ELSE IF ~s.expires_at.some THEN Err("missing_field", "expire_at")
    ELSE IF ~s.certs.some THEN Err("missing_field", "certs")
    ELSE Ok([issuer |-> s.issuer.v, issued_at |-> s.issued_at.v,
             expires_at |-> s.expires_at.v, certs |-> s.certs.v])

RECURSIVE VisitMap(_)
VisitMap(s) ==
    IF s.err.some THEN s.err.v
    ELSE IF s.left = 0 THEN EndOfMap(s)
    ELSE VisitMap(ScanEntry(s))

(* from_reader::<Payload>(bytes), line 202 with lines 94-175: the first    *)
(* data item of the bytes must be a map, which visit_map then reads.       *)
FromReaderPayload(bytes) ==
    IF bytes = <<>> THEN Err("eof", "")
    ELSE IF Head(bytes).t # "map" THEN Err("invalid_type", "")
    ELSE VisitMap(StartScan(Head(bytes).m, Tail(bytes)))

-----------------------------------------------------------------------------
(* decode, lines 178-212.                                                  *)

Running == [st |-> "running"]
Returned(cert) == [st |-> "ok", cert |-> cert]
Failed(kind, detail) == [st |-> "err", kind |-> kind, detail |-> detail]
Panicked(line) == [st |-> "panic", line |-> line]
NoDetail == [kind |-> "", field |-> ""]

Whitespace == {" "}

RECURSIVE TrimEnd(_)
TrimEnd(str) ==
    IF str # <<>> /\ str[Len(str)] \in Whitespace
    THEN TrimEnd(SubSeq(str, 1, Len(str) - 1))
    ELSE str

StartsWith(str, prefix) ==
    Len(str) >= Len(prefix) /\ SubSeq(str, 1, Len(prefix)) = prefix

(* StripPrefix without the comparison with the marker (a variant the      *)
(* prefix property must tell from the code).                               *)
StripPrefixUncheckedMut(str, prefix) ==
    IF Len(str) >= Len(prefix)
    THEN Some(SubSeq(str, Len(prefix) + 1, Len(str)))
    ELSE None

(* str::strip_prefix, line 179.                                            *)
StripPrefix(str, prefix) ==
    IF StartsWith(str, prefix)
    THEN Some(SubSeq(str, Len(prefix) + 1, Len(str)))
    ELSE None

(* UnwrapEnvelope that also wants the signature, index 3, to be a byte    *)
(* string (a variant the envelope properties must tell from the code).     *)
UnwrapSignedMut(v) ==
    IF v.t = "tag" /\ v.k = COSE_SIGN1_TAG
    THEN IF v.c.t = "array"
         THEN IF Len(v.c.a) <= PAYLOAD_POSITION + 1
              THEN [to |-> "done", result |-> Panicked(201)]
              ELSE IF v.c.a[PAYLOAD_POSITION + 1].t = "bytes"
                      /\ v.c.a[PAYLOAD_POSITION + 2].t = "bytes"
                   THEN [to |-> "payload", bytes |-> v.c.a[PAYLOAD_POSITION + 1].b]
                   ELSE [to |-> "done", result |-> Failed("CantDecodePayload", NoDetail)]
         ELSE [to |-> "done", result |-> Failed("CantDecodePayload", NoDetail)]
    ELSE [to |-> "done", result |-> Failed("NotCOSESign1", NoDetail)]

(* Lines 192-211 without the read of the payload: where the parsed value   *)
(* sends decode.  Indexing arr[PAYLOAD_POSITION] panics on a short array.  *)
UnwrapEnvelope(v) ==
    IF v.t = "tag" /\ v.k = COSE_SIGN1_TAG
    THEN IF v.c.t = "array"
         THEN IF Len(v.c.a) <= PAYLOAD_POSITION
              THEN [to |-> "done", result |-> Panicked(201)]
              ELSE IF v.c.a[PAYLOAD_POSITION + 1].t = "bytes"
                   THEN [to |-> "payload", bytes |-> v.c.a[PAYLOAD_POSITION + 1].b]
                   ELSE [to |-> "done", result |-> Failed("CantDecodePayload", NoDetail)]
         ELSE [to |-> "done", result |-> Failed("CantDecodePayload", NoDetail)]
    ELSE [to |-> "done", result |-> Failed("NotCOSESign1", NoDetail)]

(* Lines 203-204: p.certs[&CLAIM_KEY_DCCV1].clone(); HashMap's Index       *)
(* panics when the key is absent.                                          *)
LookupV1(certs) ==
    IF CLAIM_KEY_DCCV1 \in DOMAIN certs
    THEN Returned(certs[CLAIM_KEY_DCCV1])
    ELSE Panicked(203)

(* Lines 202-204 on the payload bytes.                                     *)
DecodePayload(bytes) ==
    LET r == FromReaderPayload(bytes)
    IN  IF r.ok THEN LookupV1(r.v.certs) ELSE Failed("CBORDecode", r.err)

(* Lines 192-211 on the parsed value.                                      *)
DecodeValue(v) ==
    LET u == UnwrapEnvelope(v)
    IN  IF u.to = "payload" THEN DecodePayload(u.bytes) ELSE u.result

-----------------------------------------------------------------------------
(* The inputs the specifications draw from.                                *)

Alphabet == {"H", "C", "1", ":", " "}

SeqsUpTo(S, n) == UNION {[1..k -> S] : k \in 0..n}

Inputs == SeqsUpTo(Alphabet, MaxInputLen)

FieldValue(ty, f, ci) ==
    IF FieldType(ty, f) = "i32" THEN IntV(2)
    ELSE IF f = "ci" THEN Text(ci) ELSE Text(f)

(* The map a record of struct ty is written as, without the fields omit.   *)
RecordItem(ty, ci, omit) ==
    LET fs == SelectSeq(FieldsOf(ty), LAMBDA f : f \notin omit)
    IN  Map([i \in 1..Len(fs) |-> <<Text(fs[i]), FieldValue(ty, fs[i], ci)>>])

NameItem == RecordItem("Name", "", {})

VaccinePool == {RecordItem("VaccineRecord", "01ITE7#6", {}),
                RecordItem("VaccineRecord", "01ITE7#7", {"dt"})}
RecoveryPool == {RecordItem("RecoveryRecord", "01ITA6#1", {})}
TestPool == {RecordItem("TestRecord", "01IT05#3", {}),
             RecordItem("TestRecord", "01IT0B#1", {"ma"})}

OptSeqs(pool) == {None} \cup {Some(q) : q \in SeqsUpTo(pool, MaxRecords)}

(* A certificate value: the scalar fields in present, and each collection  *)
(* that is given.                                                          *)
CertItem(present, vs, rs, ts) ==
    Map((IF "ver" \in present THEN <<<<Text("ver"), Text("1.0.0")>>>> ELSE <<>>)
        \o (IF "nam" \in present THEN <<<<Text("nam"), NameItem>>>> ELSE <<>>)
        \o (IF "dob" \in present THEN <<<<Text("dob"), Text("1977-06-16")>>>> ELSE <<>>)
        \o (IF vs.some THEN <<<<Text("v"), Array(vs.v)>>>> ELSE <<>>)
        \o (IF rs.some THEN <<<<Text("r"), Array(rs.v)>>>> ELSE <<>>)
        \o (IF ts.some THEN <<<<Text("t"), Array(ts.v)>>>> ELSE <<>>))

Scalars == {"ver", "nam", "dob"}

CertItems ==
    {CertItem(pr, vs, rs, ts) :
        pr \in SUBSET Scalars, vs \in OptSeqs(VaccinePool),
        rs \in OptSeqs(RecoveryPool), ts \in OptSeqs(TestPool)}

CertA == CertItem(Scalars, Some(<<RecordItem("VaccineRecord", "01ITE7#6", {})>>), None, None)
CertB == CertItem(Scalars, None, Some(<<RecordItem("RecoveryRecord", "01ITA6#1", {})>>), None)

(* Health-certificate mappings: version keys and what they hold.           *)
VersionKeys == {IntV(1), IntV(2), IntV(-1)}
VersionValues == {CertA, CertB, Text("v2")}
HcertItems == {Map(m) : m \in SeqsUpTo(VersionKeys \X VersionValues, MaxVersions)}

HcertV1 == Map(<<<<IntV(1), CertA>>>>)
HcertV2 == Map(<<<<IntV(2), CertA>>>>)

(* The claims of a token around a health-certificate mapping.              *)
ClaimsWith(h) ==
    <<<<IntV(4), IntV(1683849600)>>, <<IntV(6), IntV(1620926082)>>,
      <<IntV(1), Text("IT")>>, <<IntV(-260), h>>>>

(* Entries of a claims mapping: the four claims, and entries under other   *)
(* keys (an integer key holding a text, one holding an integer, and a text *)
(* key).                                                                   *)
EntryPool ==
    {<<IntV(1), Text("IT")>>, <<IntV(4), IntV(7)>>, <<IntV(6), IntV(7)>>,
     <<IntV(-260), HcertV1>>,
     <<IntV(99), Text("x")>>, <<IntV(98), IntV(7)>>, <<Text("k"), IntV(7)>>}

ClaimMaps == SeqsUpTo(EntryPool, MaxEntries)

(* Elements of the array under the outer tag, and the parsed values.       *)
ElemPool ==
    {Text("x"), Bytes(<<Map(ClaimsWith(HcertV1))>>),
     Bytes(<<Map(ClaimsWith(HcertV2))>>)}

Arrays == {Array(a) : a \in SeqsUpTo(ElemPool, MaxArr)}

Values ==
    Arrays \cup {Tag(k, c) : k \in {COSE_SIGN1_TAG, 61}, c \in Arrays \cup {Text("x")}}

NoScan == StartScan(<<>>, <<>>)

-----------------------------------------------------------------------------
(* decode as a state machine: one action per stage.                        *)

Init ==
    /\ pc = "start"
    /\ data \in Inputs
    /\ base45_data = <<>>
    /\ cbor_data = <<>>
    /\ payload = <<>>
    /\ scan = NoScan
    /\ p = None
    /\ cert_value = Text("")
    /\ result = Running
    /\ stages = <<>>

(* Lines 179-184.                                                          *)
Prefix ==
    /\ pc = "start"
    /\ LET r == StripPrefix(TrimEnd(data), HC1_FIELD)
       IN  IF r.some
           THEN /\ base45_data' = r.v
                /\ pc' = "base45"
                /\ UNCHANGED result
           ELSE /\ result' = Failed("MissingPrefix", NoDetail)
                /\ pc' = "done"
                /\ UNCHANGED base45_data
    /\ stages' = Append(stages, "prefix")
    /\ UNCHANGED <<data, cbor_data, payload, scan, p, cert_value>>

(* Line 186: base45::decode(&base45_data)?                                 *)
Base45 ==
    /\ pc = "base45"
    /\ \/ pc' = "inflate" /\ UNCHANGED result
       \/ pc' = "done" /\ result' = Failed("InvalidBase45", NoDetail)
    /\ stages' = Append(stages, "base45")
    /\ UNCHANGED <<data, base45_data, cbor_data, payload, scan, p, cert_value>>

(* Lines 188-190: zlibdecoder.read_to_end(&mut cbor_data)?                 *)
Inflate ==
    /\ pc = "inflate"
    /\ \/ \E v \in Values :
             cbor_data' = <<v>> /\ pc' = "cbor" /\ UNCHANGED result
       \/ cbor_data' = <<>> /\ pc' = "cbor" /\ UNCHANGED result
       \/ pc' = "done" /\ result' = Failed("DecompressionFailed", NoDetail)
             /\ UNCHANGED cbor_data
    /\ stages' = Append(stages, "inflate")
    /\ UNCHANGED <<data, base45_data, payload, scan, p, cert_value>>

(* Lines 192-211: parse one value and unwrap the envelope.                 *)
Unwrap ==
    /\ pc = "cbor"
    /\ IF cbor_data = <<>>
       THEN /\ result' = Failed("CBORDecode", [kind |-> "eof", field |-> ""])
            /\ pc' = "done"
            /\ UNCHANGED payload
       ELSE LET u == UnwrapEnvelope(Head(cbor_data))
            IN  IF u.to = "payload"
                THEN payload' = u.bytes /\ pc' = "payload" /\ UNCHANGED result
                ELSE result' = u.result /\ pc' = "done" /\ UNCHANGED payload
    /\ stages' = Append(stages, "cose")
    /\ UNCHANGED <<data, base45_data, cbor_data, scan, p, cert_value>>

(* Line 202: let p: Payload = from_reader(&p[..])?                         *)
ReadPayload ==
    /\ pc = "payload"
    /\ LET r == FromReaderPayload(payload)
       IN  /\ p' = Some(r)
           /\ IF r.ok
              THEN pc' = "lookup" /\ UNCHANGED result
              ELSE pc' = "done" /\ result' = Failed("CBORDecode", r.err)
    /\ stages' = Append(stages, "claims")
    /\ UNCHANGED <<data, base45_data, cbor_data, payload, scan, cert_value>>

(* Lines 203-204.                                                          *)
Lookup ==
    /\ pc = "lookup"
    /\ result' = LookupV1(p.v.v.certs)
    /\ pc' = "done"
    /\ stages' = Append(stages, "lookup")
    /\ UNCHANGED <<data, base45_data, cbor_data, payload, scan, p, cert_value>>

Next == Prefix \/ Base45 \/ Inflate \/ Unwrap \/ ReadPayload \/ Lookup

Spec == Init /\ [][Next]_vars

-----------------------------------------------------------------------------
(* The tail of decode on a token whose claims hold a given                 *)
(* health-certificate mapping.                                             *)

InitHcert ==
    /\ pc = "payload"
    /\ \E h \in HcertItems : payload = <<Map(ClaimsWith(h))>>
    /\ data = <<>>
    /\ base45_data = <<>>
    /\ cbor_data = <<>>
    /\ scan = NoScan
    /\ p = None
    /\ cert_value = Text("")
    /\ result = Running
    /\ stages = <<>>

NextHcert == ReadPayload \/ Lookup

SpecHcert == InitHcert /\ [][NextHcert]_vars

-----------------------------------------------------------------------------
(* visit_map entry by entry on a claims mapping.                           *)

InitScan ==
    /\ pc = "scan"
    /\ \E m \in ClaimMaps : payload = <<Map(m)>> /\ scan = StartScan(m, <<>>)
    /\ data = <<>>
    /\ base45_data = <<>>
    /\ cbor_data = <<>>
    /\ p = None
    /\ cert_value = Text("")
    /\ result = Running
    /\ stages = <<>>

(* One iteration of the loop; an error returns from visit_map.             *)
ScanStep ==
    /\ pc = "scan"
    /\ scan.left > 0
    /\ scan' = ScanEntry(scan)
    /\ IF scan'.err.some
       THEN p' = Some(scan'.err.v) /\ pc' = "scanned"
       ELSE UNCHANGED <<p, pc>>
    /\ stages' = Append(stages, "entry")
    /\ UNCHANGED <<data, base45_data, cbor_data, payload, cert_value, result>>

(* next_key returned None: lines 156-169.                                  *)
ScanEnd ==
    /\ pc = "scan"
    /\ scan.left = 0
    /\ p' = Some(EndOfMap(scan))
    /\ pc' = "scanned"
    /\ stages' = Append(stages, "end")
    /\ UNCHANGED <<data, base45_data, cbor_data, payload, scan, cert_value, result>>

NextScan == ScanStep \/ ScanEnd

SpecScan == InitScan /\ [][NextScan]_vars

-----------------------------------------------------------------------------
(* Certificate's derived Deserialize on a certificate value.               *)

InitCert ==
    /\ pc = "cert"
    /\ cert_value \in CertItems
    /\ data = <<>>
    /\ base45_data = <<>>
    /\ cbor_data = <<>>
    /\ payload = <<>>
    /\ scan = NoScan
    /\ p = None
    /\ result = Running
    /\ stages = <<>>

Deserialize ==
    /\ pc = "cert"
    /\ LET r == DeCertificate(cert_value)
       IN  result' = IF r.ok THEN Returned(r.v) ELSE Failed("SchemaMismatch", r.err)
    /\ pc' = "done"
    /\ stages' = Append(stages, "certificate")
    /\ UNCHANGED <<data, base45_data, cbor_data, payload, scan, p, cert_value>>

NextCert == Deserialize

SpecCert == InitCert /\ [][NextCert]_vars

-----------------------------------------------------------------------------
(* Properties.                                                             *)

(* The input without its trailing whitespace: its longest prefix that does *)
(* not end in whitespace.                                                  *)
Trimmed(str) ==
    LET keep == {i \in 1..Len(str) : str[i] \notin Whitespace}
        n == IF keep = {} THEN 0 ELSE CHOOSE i \in keep : \A j \in keep : j <= i
    IN  SubSeq(str, 1, n)

HasMarker(str) ==
    /\ Len(str) >= 4
    /\ str[1] = "H" /\ str[2] = "C" /\ str[3] = "1" /\ str[4] = ":"

(* C6: once the prefix stage has run, an input that does not start with    *)
(* "HC1:" after its trailing whitespace is trimmed has failed with         *)
(* MissingPrefix and no other stage has run; for an input that does, the   *)
(* Base45 stage is handed exactly the trimmed input without its first 4    *)
(* characters.                                                             *)
C6_PrefixStage ==
    stages # <<>> =>
        IF HasMarker(Trimmed(data))
        THEN /\ HC1_FIELD \o base45_data = Trimmed(data)
             /\ ~(result.st = "err" /\ result.kind = "MissingPrefix")
        ELSE /\ pc = "done"
             /\ result = Failed("MissingPrefix", NoDetail)
             /\ stages = <<"prefix">>
             /\ base45_data = <<>> /\ cbor_data = <<>> /\ payload = <<>> /\ p = None

C6_Witness ==
    /\ stages = <<"prefix", "base45">>
    /\ base45_data # <<>>
    /\ pc = "inflate"

IsEnvelope(v) ==
    v.t = "tag" /\ v.k = 18 /\ v.c.t = "array" /\ Len(v.c.a) = 4

(* C7: when decode has finished on a tag-18 envelope of four elements,     *)
(* its outcome is the outcome of decoding every envelope that keeps the    *)
(* element at index 2 and holds any other elements at indices 0, 1 and 3.  *)
C7_HeadersAndSignatureIgnored ==
    (pc = "done" /\ cbor_data # <<>> /\ IsEnvelope(cbor_data[1])) =>
        \A e0 \in ElemPool, e1 \in ElemPool, e3 \in ElemPool :
            DecodeValue(Tag(18, Array(<<e0, e1, cbor_data[1].c.a[3], e3>>))) = result

C7_Witness ==
    /\ pc = "done"
    /\ cbor_data # <<>>
    /\ IsEnvelope(cbor_data[1])
    /\ cbor_data[1].c.a[1] = Text("x")
    /\ cbor_data[1].c.a[2].t = "bytes"
    /\ cbor_data[1].c.a[4] = Text("x")
    /\ result.st = "ok"

(* The value a map item holds under a text key, if any.                    *)
Holds(item, f) == \E i \in 1..Len(item.m) : item.m[i][1] = Text(f)
Held(item, f) == item.m[CHOOSE i \in 1..Len(item.m) : item.m[i][1] = Text(f)][2]

Optional(ty) == IF ty = "TestRecord" THEN {"nm", "ma", "dr"} ELSE {}
Numeric(ty) == IF ty = "VaccineRecord" THEN {"dn", "sd"} ELSE {}

(* A record item that holds every field its struct requires.               *)
Complete(item, ty) ==
    \A f \in Range(FieldsOf(ty)) : f \in Optional(ty) \/ Holds(item, f)

(* The decoded record rec is the record item, field by field, with an      *)
(* absent optional text as the empty string.                               *)
SameRecord(rec, item, ty) ==
    \A f \in Range(FieldsOf(ty)) :
        rec[f] = IF ~Holds(item, f) THEN ""
                 ELSE IF f \in Numeric(ty) THEN Held(item, f).n
                 ELSE Held(item, f).s

CollectionType(c) ==
    CASE c = "v" -> "VaccineRecord" [] c = "r" -> "RecoveryRecord" [] c = "t" -> "TestRecord"

(* C8: a certificate value that holds ver, nam and dob, and under each of  *)
(* v, r, t that it holds a sequence of complete records, deserializes; in  *)
(* the Certificate a collection whose key is absent is empty and one whose *)
(* key is present holds that key's records, in order.                      *)
C8_CollectionsDefaultToEmpty ==
    (/\ pc = "done"
     /\ \A f \in {"ver", "nam", "dob"} : Holds(cert_value, f)
     /\ \A c \in {"v", "r", "t"} :
            Holds(cert_value, c) =>
                \A i \in 1..Len(Held(cert_value, c).a) :
                    Complete(Held(cert_value, c).a[i], CollectionType(c)))
    => /\ result.st = "ok"
       /\ \A c \in {"v", "r", "t"} :
            IF ~Holds(cert_value, c) THEN result.cert[c] = <<>>
            ELSE /\ Len(result.cert[c]) = Len(Held(cert_value, c).a)
                 /\ \A i \in 1..Len(result.cert[c]) :
                        SameRecord(result.cert[c][i], Held(cert_value, c).a[i],
                                   CollectionType(c))

C8_Witness ==
    /\ pc = "done"
    /\ result.st = "ok"
    /\ ~Holds(cert_value, "v") /\ ~Holds(cert_value, "t")
    /\ Holds(cert_value, "r")
    /\ Len(result.cert["r"]) = 1
    /\ result.cert["v"] = <<>> /\ result.cert["t"] = <<>>

(* The entries of the claims mapping under study, and its keys.            *)
ClaimEntries == payload[1].m
KeyCount(m, k) == Cardinality({i \in 1..Len(m) : m[i][1] = IntV(k)})
RequiredKeys == {1, 4, 6, -260}
HoldsEachOnce(m) == \A k \in RequiredKeys : KeyCount(m, k) = 1
NoDuplicateKey(m) == \A i \in 1..Len(m), j \in 1..Len(m) : m[i][1] = m[j][1] => i = j
Recognized(m) == SelectSeq(m, LAMBDA e : e[1].t = "int" /\ e[1].n \in RequiredKeys)
Scanned(m) == VisitMap(StartScan(m, <<>>))

(* The health-certificate mapping of the payload under study.              *)
HcertOf(m) == m[CHOOSE i \in 1..Len(m) : m[i][1] = IntV(-260)][2]

(* C1: when decode has read a payload with all four claims whose           *)
(* health-certificate mapping has no entry under key 1, decode has         *)
(* returned the UnsupportedSchemaVersion error.                            *)
C1_NoV1IsAnError ==
    (/\ pc = "done"
     /\ p.some /\ p.v.ok
     /\ 1 \notin DOMAIN p.v.v.certs)
    => result.st = "err" /\ result.kind = "UnsupportedSchemaVersion"

(* C2: decode gets past the envelope stage only on a tag-18 array of       *)
(* exactly 4 elements; on another tag or no tag, and on a tag-18 array of  *)
(* another length, it returns the structural error of the envelope stage   *)
(* (either of the two error returns of lines 208 and 211 counts).          *)
C2_EnvelopeTagAndArity ==
    (cbor_data # <<>> /\ "cose" \in Range(stages)) =>
        LET v == cbor_data[1]
        IN  /\ "claims" \in Range(stages) => IsEnvelope(v)
            /\ (\/ ~(v.t = "tag" /\ v.k = 18)
                \/ (v.t = "tag" /\ v.k = 18 /\ v.c.t = "array" /\ Len(v.c.a) # 4))
               => /\ pc = "done"
                  /\ result.st = "err"
                  /\ result.kind \in {"NotCOSESign1", "CantDecodePayload"}

(* C3: the scan of a claims mapping that holds each of the four required   *)
(* keys once ends as the scan of the same mapping without its entries      *)
(* under other keys.                                                       *)
C3_UnknownKeysSkipped ==
    (pc = "scanned" /\ HoldsEachOnce(ClaimEntries))
    => p.v = Scanned(Recognized(ClaimEntries))

FieldKey(name) ==
    CASE name = "issuer" -> 1
      [] name = "issued_at" -> 6
      [] name \in {"expire_at", "expires_at"} -> 4
      [] name = "certs" -> -260
      [] OTHER -> 0

(* C4: the scan of a claims mapping without a duplicate key that lacks a   *)
(* required claim ends in a missing-claim error that names a claim the     *)
(* mapping lacks.                                                          *)
C4_MissingClaimNamed ==
    (/\ pc = "scanned"
     /\ NoDuplicateKey(ClaimEntries)
     /\ \E k \in RequiredKeys : KeyCount(ClaimEntries, k) = 0)
    => /\ ~p.v.ok
       /\ p.v.err.kind = "missing_field"
       /\ FieldKey(p.v.err.field) \in RequiredKeys
       /\ KeyCount(ClaimEntries, FieldKey(p.v.err.field)) = 0

(* C5: the scan of a claims mapping in which one of the claim keys         *)
(* appears twice ends in a duplicate-claim error.                          *)
C5_DuplicateClaimRejected ==
    (/\ pc = "scanned"
     /\ \E k \in RequiredKeys : KeyCount(ClaimEntries, k) >= 2)
    => ~p.v.ok /\ p.v.err.kind = "duplicate_field"

(* C9: when the health-certificate mapping holds, under key 1 and once, a  *)
(* value that deserializes into a Certificate, decode returns that         *)
(* Certificate.                                                            *)
C9_V1Returned ==
    LET h == HcertOf(ClaimEntries)
        at == {i \in 1..Len(h.m) : h.m[i][1] = IntV(1)}
    IN  (/\ pc = "done"
         /\ Cardinality(at) = 1
         /\ \A i \in at : DeCertificate(h.m[i][2]).ok)
        => \A i \in at : result = Returned(DeCertificate(h.m[i][2]).v)

Orders(n) == {f \in [1..n -> 1..n] : \A i \in 1..n, j \in 1..n : f[i] = f[j] => i = j}

(* C10: the scan of a claims mapping that holds each of the four required  *)
(* keys once ends as the scan of every permutation of its entries.         *)
C10_AnyKeyOrder ==
    (pc = "scanned" /\ HoldsEachOnce(ClaimEntries))
    => \A f \in Orders(Len(ClaimEntries)) :
          Scanned([i \in 1..Len(ClaimEntries) |-> ClaimEntries[f[i]]]) = p.v

====
